---- MODULE Spec2Model ----
(***************************************************************************)
(* Order-preserving encryption (rust-opse): the OPE driver (ope.rs), the   *)
(* range samplers (stat.rs) and the hypergeometric sampler (hgd.rs).       *)
(*                                                                         *)
(* Numbers are the integer-valued f64 of the source, modelled as integers; *)
(* the places where the source's f64 leaves the integers are modelled      *)
(* explicitly: a division by zero in the HYP loop by an infinity flag, the *)
(* real-valued acceptance test of HRUA by an uninterpreted function of the *)
(* draws and the loop-invariant arguments, and the endpoints handed to     *)
(* ValueRange::new, which need not be integers, by numerators over Den.    *)
(***************************************************************************)
EXTENDS Integers, Sequences, FiniteSets, TLC

\* ------------------------------------------------------------------ bounds
\* Number of bits of a seed word. The source reads coins[..32] in the PRNG and
\* seed_coins[0..=31] in sample_uniform; the word is scaled down so that every
\* tape can be enumerated.
SeedLen == 2
\* Context ranges: in_range.start in -1..MaxStart, sizes 1..MaxInSize;
\* out_range.start in -1..0, sizes up to MaxOutSize.
MaxStart == 2
MaxInSize == 3
MaxOutSize == 6
\* Contexts whose two ranges start in -1..0, of sizes beyond the above: in_range
\* of MaxInSize + 1 .. MaxLongIn values, out_range of MaxOutSize + 1 .. MaxLongOut.
MaxLongIn == 6
MaxLongOut == 9
\* Frames of recursion the stack holds before the process aborts.
StackLimit == 6
\* rhyper on its own: kk in 0..MaxDraws, good and bad in 0..MaxBalls.
MaxDraws == 12
MaxBalls == 6
\* sample_uniform on its own: ranges of sizes 1..MaxUniSize.
MaxUniSize == 10
\* ValueRange::new on its own: endpoints are the multiples n / Den of 1 / Den
\* with n in -MaxNum..MaxNum, so that endpoints that are not integers occur.
Den == 2
MaxNum == 4

\* ------------------------------------------------------- program constants
\* hgd.rs:74, rhyper uses HRUA when kk > 10.
HypMax == 10
\* hgd.rs:165, the rejection loop panics when count == 10.
HruaCap == 10

\* ------------------------------------------------------------- arithmetic
Min(a, b) == IF a <= b THEN a ELSE b
Max(a, b) == IF a >= b THEN a ELSE b

\* floor(num / den) for any den # 0 (f64 floor of a quotient of integers).
FloorDiv(num, den) ==
    IF den > 0 THEN num \div den ELSE (-num) \div (-den)

RECURSIVE Pow2(_)
Pow2(n) == IF n = 0 THEN 1 ELSE 2 * Pow2(n - 1)

\* ------------------------------------------------------------ ValueRange
Range(s, e) == [start |-> s, end |-> e]

\* ValueRange::new panics when start > end (endpoints are integers here).
ValidRange(s, e) == s <= e

Size(r) == r.end - r.start + 1

Contains_strict(r, n) == r.start < n /\ n <= r.end

Contains(r, n) == r.start <= n /\ n <= r.end

\* ValueRange on endpoints that need not be integers: a number is held as its
\* numerator over Den. f64::floor of n / Den, as a numerator.
Floor(n) == Den * FloorDiv(n, Den)

\* ValueRange::new(start, end): the three panics (ope.rs:26-36).
NewPanics_empty(start, end) ==
    start >= end \/ start # Floor(start) \/ end # Floor(end)

NewPanics(start, end) ==
    start > end \/ start # Floor(start) \/ end # Floor(end)

\* ValueRange::size and ValueRange::contains on numerators (1.0 is Den / Den).
SizeOf(r) == r.end - r.start + Den

ContainsNum(r, number) == r.start <= number /\ number <= r.end

\* ----------------------------------------------------------------- tapes
\* tape_gen returns more bits than the seed word holds (128 against 32 in the
\* source); the model keeps one bit beyond the seed word.
CoinsLen == SeedLen + 1

Tapes == [1..CoinsLen -> {0, 1}]

\* PRNG::numerify_coins: out = (out << 1) | bit over the first SeedLen bits.
RECURSIVE NumerifyFrom(_, _, _)
NumerifyFrom(coins, i, out) ==
    IF i > SeedLen THEN out
    ELSE NumerifyFrom(coins, i + 1, (2 * out + coins[i]) % Pow2(SeedLen))

numerify_coins(coins) == NumerifyFrom(coins, 1, 0)

\* PRNG::draw is numerify_coins / (2^SeedLen - 1): the pair numerator, denominator.
DrawDen == Pow2(SeedLen) - 1

\* A generator that moves on by one bit of the tape with every draw.
draw_advancing(coins, drawn) ==
    numerify_coins([i \in 1..CoinsLen |-> coins[((i - 1 + drawn) % CoinsLen) + 1]])

\* PRNG::draw(&self), as a numerator over DrawDen, after `drawn` earlier draws of
\* the same PRNG: it reads coins[..32] and keeps no position.
draw(coins, drawn) == numerify_coins(coins)

\* --------------------------------------------------------- sample_uniform
\* One iteration of the while loop of sample_uniform on current_range r with
\* bit_counter c: panics when c exceeds the seed word, else halves r on coins[c].
UniformExhausted(c) == c > SeedLen - 1

\* The quotient rounded towards zero instead of down.
UniformMid_trunc(r) ==
    IF r.start + r.end >= 0 THEN (r.start + r.end) \div 2
    ELSE -((-(r.start + r.end)) \div 2)

\* (start + end).div_euclid(2)
UniformMid(r) == FloorDiv(r.start + r.end, 2)

UniformStep(r, bit) ==
    IF bit = 0 THEN Range(r.start, UniformMid(r))
    ELSE Range(UniformMid(r) + 1, r.end)

\* The result record of a sampler: err = "none" and the value, or the panic.
Ok(v) == [err |-> "none", val |-> v]
Panic(e) == [err |-> e, val |-> 0]

RECURSIVE UniformLoop(_, _, _)
UniformLoop(r, coins, c) ==
    IF ~(Size(r) > 1) THEN Ok(r.start)
    ELSE IF UniformExhausted(c) THEN Panic("CoinsExhausted")
    ELSE UniformLoop(UniformStep(r, coins[c + 1]), coins, c + 1)

sample_uniform(in_range, coins) ==
    IF Size(in_range) = 0 THEN Panic("ZeroSize")
    ELSE UniformLoop(in_range, coins, 0)

\* ------------------------------------------------------- hypergeometric
\* A value of the sampler: an integer, or the +inf / -inf an f64 division by
\* zero produces (inf = 1, -1).
Fin(v) == [inf |-> 0, val |-> v]
PosInf == [inf |-> 1, val |-> 0]
NegInf == [inf |-> -1, val |-> 0]

\* floor(u + y / den) with u = n / DrawDen, den # 0.
HypFloor(n, y, den) == FloorDiv(n * den + y * DrawDen, DrawDen * den)

\* The while loop of hypergeometric_hyp from its head, with the draw n/DrawDen
\* (every prng.draw() of a call returns the same value); the final y.
\* y > 0 over a zero d1 + k: y / 0 = +inf, y becomes -inf and the loop ends.
RECURSIVE HypLoop(_, _, _, _)
HypLoop(y, k, d1, n) ==
    IF ~(y > 0) THEN Fin(y)
    ELSE IF d1 + k = 0 THEN NegInf
    ELSE LET y2 == y - HypFloor(n, y, d1 + k)
             k2 == k - 1
         IN  IF k2 = 0 THEN Fin(y2) ELSE HypLoop(y2, k2, d1, n)

hypergeometric_hyp(n, good, bad, sample) ==
    LET d1 == bad + good - sample
        d2 == Min(good, bad)
        y  == HypLoop(d2, sample, d1, n)
    IN  IF y.inf # 0
        THEN (IF good > bad THEN NegInf ELSE PosInf)
        ELSE LET z == d2 - y.val
             IN  Fin(IF good > bad THEN sample - z ELSE z)

\* hypergeometric_hrua. Its iteration computes x = y = draw, w, z = floor(w)
\* and t in real arithmetic (sqrt, ln, loggam) from arguments that do not
\* change inside the loop; the model keeps that value uninterpreted: h is the
\* outcome of an iteration on these arguments, Reject or the accepted z.
\* An accepted z has EPSILON <= w < d11 <= min(m, mingoodbad) + 1, and a zero
\* draw gives w = -inf, which the fast rejection refuses.
Reject == -1

HruaM(good, bad, sample) == Min(sample, good + bad - sample)

HruaOutcomes(n, good, bad, sample) ==
    {Reject} \cup
    (IF n = 0 THEN {}
     ELSE 0..Min(HruaM(good, bad, sample), Min(good, bad)))

\* The two corrections after the loop (hgd.rs:201-209).
HruaCorrect(z, good, bad, sample) ==
    LET m  == HruaM(good, bad, sample)
        z1 == IF good > bad THEN m - z ELSE z
    IN  IF m < sample THEN good - z1 ELSE z1

\* The loop of hypergeometric_hrua entered with `count`: count += 1, the panic
\* when count == 10, then the iteration: a rejection continues, an acceptance
\* leaves the loop with z, which the two corrections turn into the result.
HruaPanics_late(count) == count = HruaCap + 1

\* hgd.rs:165, tested right after count += 1.
HruaPanics(count) == count = HruaCap

RECURSIVE HruaLoop(_, _, _, _, _)
HruaLoop(count, h, good, bad, sample) ==
    IF HruaPanics(count + 1)
    THEN [err |-> "SamplerDiverged", inf |-> 0, val |-> 0]
    ELSE IF h = Reject THEN HruaLoop(count + 1, h, good, bad, sample)
    ELSE [err |-> "none", inf |-> 0, val |-> HruaCorrect(h, good, bad, sample)]

hypergeometric_hrua(h, good, bad, sample) == HruaLoop(0, h, good, bad, sample)

UsesHrua(kk) == kk > HypMax

rhyper(kk, nn1, nn2, coins, h) ==
    IF UsesHrua(kk)
    THEN hypergeometric_hrua(h, nn1, nn2, kk)
    ELSE LET z == hypergeometric_hyp(numerify_coins(coins), nn1, nn2, kk)
         IN  [err |-> "none", inf |-> z.inf, val |-> z.val]

\* ------------------------------------------------------------ sample_hgd
\* The precondition the code checks on nsample (stat.rs:54).
HgdPrecondition(in_range, out_range, nsample) ==
    /\ ~(Size(in_range) < 1)
    /\ ~(Size(out_range) < 1)
    /\ Contains(in_range, nsample)

NsampleIndex(out_range, nsample) == nsample - out_range.start + 1

\* Whether the call reaches rhyper, and with which arguments <<kk, nn1, nn2>>.
HgdCallsRhyper(in_range, out_range, nsample) ==
    /\ HgdPrecondition(in_range, out_range, nsample)
    /\ Size(in_range) # Size(out_range)

RhyperArgs(in_range, out_range, nsample) ==
    << NsampleIndex(out_range, nsample), Size(in_range),
       Size(out_range) - Size(in_range) >>

sample_hgd(in_range, out_range, nsample, coins, h) ==
    LET in_size  == Size(in_range)
        out_size == Size(out_range)
        index    == NsampleIndex(out_range, nsample)
    IN  IF in_size < 1 THEN Panic("HgdInSize")
        ELSE IF out_size < 1 THEN Panic("HgdOutSize")
        ELSE IF ~Contains(in_range, nsample) THEN Panic("HgdNsample")
        ELSE IF in_size = out_size THEN Ok(in_range.start + index - 1)
        ELSE LET r == rhyper(index, in_size, out_size - in_size, coins, h)
             IN  IF r.err # "none" THEN Panic(r.err)
                 ELSE IF r.inf = 0 /\ r.val = 0 THEN Ok(in_range.start)
                 ELSE IF r.inf # 0 THEN Panic("InvariantViolated")
                 ELSE IF ~Contains(in_range, in_range.start + r.val - 1)
                      THEN Panic("InvariantViolated")
                 ELSE Ok(in_range.start + r.val - 1)

\* ------------------------------------------------------------------ state
\* An OPE context and the encrypt call in progress on it.
VARIABLES
    in_range,    \* OPE.in_range
    out_range,   \* OPE.out_range
    tapes,       \* tape_gen under the context's key: label -> tape, as far as queried
    iters,       \* the HRUA iteration outcome: <<draw, good, bad, sample>> -> outcome
    pc,          \* "idle", "recursing", "returned", "panicked"
    plaintext,   \* argument of the encrypt call in progress
    cur_in,      \* in_range parameter of the current encrypt_recursive frame
    cur_out,     \* out_range parameter of the current encrypt_recursive frame
    trace,       \* labels passed to tape_gen by the call, in order
    result,      \* what the call returned, or its panic
    last         \* the previous finished call: <<plaintext, trace, result>>, or <<>>

opeVars == << in_range, out_range, tapes, iters, pc, plaintext, cur_in, cur_out,
              trace, result, last >>

\* A call of HGD::rhyper on its own.
VARIABLES
    rh_kk,       \* arguments of the rhyper call
    rh_nn1,
    rh_nn2,
    rh_coins,
    rh_h,        \* outcome of the latest HRUA iteration: Reject or the accepted z
    rh_pc,       \* "call", "hrua", "done", "diverged"
    rh_count,    \* count of hypergeometric_hrua
    rh_evals,    \* iterations of the rejection loop that computed w
    rh_ret,      \* the value returned
    rh_drawn,    \* calls of prng.draw() made so far
    rh_x,        \* x and y of the latest iteration, as numerators over DrawDen
    rh_y,
    rh_iters     \* the iteration outcome as far as computed: <<x, y>> -> outcome

rhVars == << rh_kk, rh_nn1, rh_nn2, rh_coins, rh_h, rh_pc, rh_count, rh_evals,
             rh_ret, rh_drawn, rh_x, rh_y, rh_iters >>

\* A call of sample_hgd on its own.
VARIABLES
    hg_in,       \* arguments of the sample_hgd call
    hg_out,
    hg_nsample,
    hg_coins,
    hg_h,        \* outcome of a HRUA iteration, should the call reach HRUA
    hg_pc,       \* "call", "done"
    hg_ret       \* the sampler result

hgVars == << hg_in, hg_out, hg_nsample, hg_coins, hg_h, hg_pc, hg_ret >>

\* A call of sample_uniform on its own.
VARIABLES
    su_range,    \* in_range argument
    su_coins,    \* seed_coins argument
    su_cur,      \* current_range
    su_bit,      \* bit_counter
    su_pc        \* "loop", "done", "exhausted"

suVars == << su_range, su_coins, su_cur, su_bit, su_pc >>

\* A call of ValueRange::new and, on the range it returns, of size and contains.
VARIABLES
    vr_start,    \* arguments of ValueRange::new, as numerators over Den
    vr_end,
    vr_number,   \* argument of contains, as a numerator over Den
    vr_pc,       \* "new", "built", "sized", "probed", "invalid"
    vr_range,    \* the ValueRange returned
    vr_size,     \* what size() returned
    vr_contains  \* what contains(number) returned

vrVars == << vr_start, vr_end, vr_number, vr_pc, vr_range, vr_size, vr_contains >>

vars == << opeVars, rhVars, hgVars, suVars, vrVars >>

\* ================================================================= OPE
Starts == -1..MaxStart
OutStarts == -1..0

\* OPE::new panics when in_range.size() > out_range.size().
OpeNewOk(i, o) == ~(Size(i) > Size(o))

SmallContexts ==
    { c \in [in : {Range(s, s + n - 1) : s \in Starts, n \in 1..MaxInSize},
             out : {Range(s, s + n - 1) : s \in OutStarts, n \in 1..MaxOutSize}] :
        OpeNewOk(c.in, c.out) }

\* Contexts whose first split asks rhyper for more than HypMax draws (HRUA).
WideContexts ==
    { [in |-> Range(HypMax - d, HypMax - d + n - 1), out |-> Range(0, 2 * HypMax)] :
        d \in 0..1, n \in 2..MaxInSize }

\* Longer ranges that start next to each other: the middle of out_range is a
\* value of in_range, so the recursion goes on past its first call of sample_hgd.
LongContexts ==
    { [in |-> Range(s, s + n - 1), out |-> Range(t, t + m - 1)] :
        s \in OutStarts, t \in OutStarts, n \in (MaxInSize + 1)..MaxLongIn,
        m \in (MaxOutSize + 1)..MaxLongOut }

\* encrypt_recursive computes these from self.in_range and self.out_range.
InSize == Size(in_range)
OutSize == Size(out_range)
InEdge == in_range.start - 1
OutEdge == out_range.start - 1
\* out_edge + (out_size / 2).ceil()
Mid == OutEdge + ((OutSize + 1) \div 2)

\* tape_gen(data): HMAC-SHA256 then AES-CTR of the label under the key, a fixed
\* function of the label whose values the model draws on first use.
TapeChoices_fresh(label) == Tapes

TapeChoices(label) ==
    IF label \in DOMAIN tapes THEN {tapes[label]} ELSE Tapes

TapesWith(label, coins) ==
    IF label \in DOMAIN tapes THEN tapes ELSE tapes @@ (label :> coins)

\* The iteration outcome of HRUA on given arguments, likewise a fixed function.
IterChoices(key) ==
    IF key \in DOMAIN iters THEN {iters[key]}
    ELSE HruaOutcomes(key[1], key[2], key[3], key[4])

ItersWith(key, h) ==
    IF key \in DOMAIN iters THEN iters ELSE iters @@ (key :> h)

\* The ranges of the next frame (ope.rs:115-121) as <<start, end>> pairs.
NewInBounds(x) ==
    IF plaintext <= x THEN << InEdge + 1, x >> ELSE << x + 1, InEdge + InSize >>

NewOutBounds_overlap(x) ==
    IF plaintext <= x THEN << OutEdge + 1, Mid >> ELSE << Mid, OutEdge + OutSize >>

NewOutBounds_long(x) ==
    IF plaintext <= x THEN << OutEdge + 1, Mid >>
    ELSE << Mid + 1, OutEdge + OutSize + 1 >>

NewOutBounds(x) ==
    IF plaintext <= x THEN << OutEdge + 1, Mid >> ELSE << Mid + 1, OutEdge + OutSize >>

OpeInitWith(i, o) ==
    /\ in_range = i /\ out_range = o
    /\ tapes = << >>
    /\ iters = << >>
    /\ pc = "idle"
    /\ plaintext = 0
    /\ cur_in = Range(0, 0)
    /\ cur_out = Range(0, 0)
    /\ trace = << >>
    /\ result = Ok(0)
    /\ last = << >>

OpeInit ==
    \/ \E c \in SmallContexts : OpeInitWith(c.in, c.out)
    \/ \E c \in WideContexts : OpeInitWith(c.in, c.out)
    \/ \E c \in LongContexts : OpeInitWith(c.in, c.out)

\* OPE::encrypt up to its call of encrypt_recursive.
Encrypt(p) ==
    /\ pc = "idle"
    /\ plaintext' = p
    /\ trace' = << >>
    /\ IF ~Contains(in_range, p)
       THEN /\ pc' = "panicked"
            /\ result' = Panic("OutOfDomain")
            /\ UNCHANGED << cur_in, cur_out >>
       ELSE /\ pc' = "recursing"
            /\ result' = Ok(0)
            /\ cur_in' = in_range
            /\ cur_out' = out_range
    /\ UNCHANGED << in_range, out_range, tapes, iters, last >>
    /\ UNCHANGED << rhVars, hgVars, suVars, vrVars >>

\* encrypt_recursive on a frame whose in_range has size 1 (ope.rs:96-105).
RecurseLeaf ==
    /\ pc = "recursing"
    /\ Len(trace) < StackLimit
    /\ Size(cur_in) = 1
    /\ \E coins \in TapeChoices(cur_in.start) :
          /\ tapes' = TapesWith(cur_in.start, coins)
          /\ result' = sample_uniform(cur_out, coins)
    /\ trace' = Append(trace, cur_in.start)
    /\ pc' = IF result'.err = "none" THEN "returned" ELSE "panicked"
    /\ UNCHANGED << in_range, out_range, iters, plaintext, cur_in, cur_out, last >>
    /\ UNCHANGED << rhVars, hgVars, suVars, vrVars >>

\* encrypt_recursive on any other frame (ope.rs:107-126), up to the recursive call.
RecurseNode ==
    /\ pc = "recursing"
    /\ Len(trace) < StackLimit
    /\ Size(cur_in) # 1
    /\ trace' = Append(trace, Mid)
    /\ \E coins \in TapeChoices(Mid) :
       LET args == RhyperArgs(cur_in, cur_out, Mid)
           hrua == HgdCallsRhyper(cur_in, cur_out, Mid) /\ UsesHrua(args[1])
           key  == << numerify_coins(coins), args[2], args[3], args[1] >>
       IN  \E h \in (IF hrua THEN IterChoices(key) ELSE {Reject}) :
           LET x == sample_hgd(cur_in, cur_out, Mid, coins, h)
               ni == NewInBounds(x.val)
               no == NewOutBounds(x.val)
           IN  /\ tapes' = TapesWith(Mid, coins)
               /\ iters' = IF hrua THEN ItersWith(key, h) ELSE iters
               /\ IF x.err # "none"
                  THEN /\ pc' = "panicked"
                       /\ result' = Panic(x.err)
                       /\ UNCHANGED << cur_in, cur_out >>
                  ELSE IF ~ValidRange(ni[1], ni[2]) \/ ~ValidRange(no[1], no[2])
                  THEN /\ pc' = "panicked"
                       /\ result' = Panic("InvalidRange")
                       /\ UNCHANGED << cur_in, cur_out >>
                  ELSE /\ pc' = "recursing"
                       /\ result' = result
                       /\ cur_in' = Range(ni[1], ni[2])
                       /\ cur_out' = Range(no[1], no[2])
    /\ UNCHANGED << in_range, out_range, plaintext, last >>
    /\ UNCHANGED << rhVars, hgVars, suVars, vrVars >>

\* A recursion that never reaches a leaf does not return: the stack runs out
\* (or, with the tail call turned into a jump, the call spins for ever).
StackOverflow ==
    /\ pc = "recursing"
    /\ Len(trace) >= StackLimit
    /\ pc' = "panicked"
    /\ result' = Panic("StackOverflow")
    /\ UNCHANGED << in_range, out_range, tapes, iters, plaintext, cur_in, cur_out,
                    trace, last >>
    /\ UNCHANGED << rhVars, hgVars, suVars, vrVars >>

\* The caller takes the outcome; the context is ready for the next call.
Finish ==
    /\ pc \in {"returned", "panicked"}
    /\ pc' = "idle"
    /\ last' = << plaintext, trace, result >>
    /\ UNCHANGED << in_range, out_range, tapes, iters, plaintext, cur_in, cur_out,
                    trace, result >>
    /\ UNCHANGED << rhVars, hgVars, suVars, vrVars >>

OpeNext ==
    \/ \E p \in (in_range.start - 1)..(in_range.end + 1) : Encrypt(p)
    \/ RecurseLeaf
    \/ RecurseNode
    \/ StackOverflow
    \/ Finish

\* ============================================================== rhyper
RhInitWith(kk, nn1, nn2, coins, h) ==
    /\ rh_kk = kk /\ rh_nn1 = nn1 /\ rh_nn2 = nn2
    /\ rh_coins = coins
    /\ rh_h = h
    /\ rh_pc = "call"
    /\ rh_count = 0
    /\ rh_evals = 0
    /\ rh_ret = Fin(0)
    /\ rh_drawn = 0
    /\ rh_x = 0 /\ rh_y = 0
    /\ rh_iters = << >>

\* The stated precondition: good, bad >= 0 and 0 <= k <= good + bad.
RhInit ==
    \E kk \in 0..MaxDraws, nn1 \in 0..MaxBalls, nn2 \in 0..MaxBalls, coins \in Tapes :
        /\ kk <= nn1 + nn2
        /\ RhInitWith(kk, nn1, nn2, coins, Reject)

RhParked == RhInitWith(0, 0, 0, [i \in 1..CoinsLen |-> 0], Reject)

\* HGD::rhyper: the dispatch, and hypergeometric_hyp as a whole.
RhCall ==
    /\ rh_pc = "call"
    /\ IF UsesHrua(rh_kk)
       THEN /\ rh_pc' = "hrua"
            /\ UNCHANGED rh_ret
       ELSE /\ rh_pc' = "done"
            /\ rh_ret' = hypergeometric_hyp(numerify_coins(rh_coins), rh_nn1, rh_nn2, rh_kk)
    /\ UNCHANGED << rh_kk, rh_nn1, rh_nn2, rh_coins, rh_h, rh_count, rh_evals,
                    rh_drawn, rh_x, rh_y, rh_iters >>
    /\ UNCHANGED << opeVars, hgVars, suVars, vrVars >>

\* The outcome of an iteration that drew x and y: a function of x, y and the
\* arguments of the call, whose values the model draws on first use.
RhIterChoices(x, y) ==
    IF << x, y >> \in DOMAIN rh_iters THEN {rh_iters[<< x, y >>]}
    ELSE HruaOutcomes(x, rh_nn1, rh_nn2, rh_kk)

RhItersWith(x, y, h) ==
    IF << x, y >> \in DOMAIN rh_iters THEN rh_iters ELSE rh_iters @@ (<< x, y >> :> h)

\* One pass of the loop of hypergeometric_hrua (hgd.rs:161-199).
RhHruaIter ==
    /\ rh_pc = "hrua"
    /\ rh_count' = rh_count + 1
    /\ IF HruaPanics(rh_count')
       THEN /\ rh_pc' = "diverged"
            /\ UNCHANGED << rh_evals, rh_ret, rh_h, rh_drawn, rh_x, rh_y, rh_iters >>
       ELSE /\ rh_evals' = rh_evals + 1
            /\ rh_x' = draw(rh_coins, rh_drawn)
            /\ rh_y' = draw(rh_coins, rh_drawn + 1)
            /\ rh_drawn' = rh_drawn + 2
            /\ \E h \in RhIterChoices(rh_x', rh_y') :
                  /\ rh_h' = h
                  /\ rh_iters' = RhItersWith(rh_x', rh_y', h)
            /\ IF rh_h' = Reject
               THEN UNCHANGED << rh_pc, rh_ret >>
               ELSE /\ rh_pc' = "done"
                    /\ rh_ret' = Fin(HruaCorrect(rh_h', rh_nn1, rh_nn2, rh_kk))
    /\ UNCHANGED << rh_kk, rh_nn1, rh_nn2, rh_coins >>
    /\ UNCHANGED << opeVars, hgVars, suVars, vrVars >>

RhNext == RhCall \/ RhHruaIter

\* ========================================================== sample_hgd
HgInitWith(i, o, nsample, coins, h) ==
    /\ hg_in = i /\ hg_out = o /\ hg_nsample = nsample
    /\ hg_coins = coins
    /\ hg_h = h
    /\ hg_pc = "call"
    /\ hg_ret = Ok(0)

HgRanges == {Range(s, s + n - 1) : s \in Starts, n \in 1..MaxInSize}

HgInit ==
    \E i \in HgRanges, o \in HgRanges, coins \in Tapes :
    \E nsample \in (i.start - 1)..(i.end + 1) :
        LET args == RhyperArgs(i, o, nsample)
            hrua == HgdCallsRhyper(i, o, nsample) /\ UsesHrua(args[1])
        IN  \E h \in (IF hrua
                      THEN HruaOutcomes(numerify_coins(coins), args[2], args[3], args[1])
                      ELSE {Reject}) :
                HgInitWith(i, o, nsample, coins, h)

HgParked ==
    HgInitWith(Range(0, 0), Range(0, 0), 0, [i \in 1..CoinsLen |-> 0], Reject)

HgCall ==
    /\ hg_pc = "call"
    /\ hg_pc' = "done"
    /\ hg_ret' = sample_hgd(hg_in, hg_out, hg_nsample, hg_coins, hg_h)
    /\ UNCHANGED << hg_in, hg_out, hg_nsample, hg_coins, hg_h >>
    /\ UNCHANGED << opeVars, rhVars, suVars, vrVars >>

HgNext == HgCall

\* ====================================================== sample_uniform
SuInitWith(r, coins) ==
    /\ su_range = r
    /\ su_coins = coins
    /\ su_cur = r
    /\ su_bit = 0
    /\ su_pc = "loop"

SuInit ==
    \E s \in (-MaxUniSize)..1, n \in 1..MaxUniSize, coins \in Tapes :
        SuInitWith(Range(s, s + n - 1), coins)

SuParked == SuInitWith(Range(0, 0), [i \in 1..CoinsLen |-> 0])

\* The loop test of sample_uniform and, when it holds, one pass of the body.
SuIter ==
    /\ su_pc = "loop"
    /\ IF ~(Size(su_cur) > 1)
       THEN /\ su_pc' = "done"
            /\ UNCHANGED << su_cur, su_bit >>
       ELSE IF UniformExhausted(su_bit)
       THEN /\ su_pc' = "exhausted"
            /\ UNCHANGED << su_cur, su_bit >>
       ELSE /\ su_cur' = UniformStep(su_cur, su_coins[su_bit + 1])
            /\ su_bit' = su_bit + 1
            /\ UNCHANGED su_pc
    /\ UNCHANGED << su_range, su_coins >>
    /\ UNCHANGED << opeVars, rhVars, hgVars, vrVars >>

SuNext == SuIter

\* ========================================================== ValueRange
VrInitWith(start, end, number) ==
    /\ vr_start = start /\ vr_end = end /\ vr_number = number
    /\ vr_pc = "new"
    /\ vr_range = Range(0, 0)
    /\ vr_size = 0
    /\ vr_contains = FALSE

Nums == (-MaxNum)..MaxNum

VrInit == \E start \in Nums, end \in Nums, number \in Nums :
              VrInitWith(start, end, number)

VrParked == VrInitWith(0, 0, 0)

\* ValueRange::new.
VrNew ==
    /\ vr_pc = "new"
    /\ IF NewPanics(vr_start, vr_end)
       THEN /\ vr_pc' = "invalid"
            /\ UNCHANGED vr_range
       ELSE /\ vr_pc' = "built"
            /\ vr_range' = Range(vr_start, vr_end)
    /\ UNCHANGED << vr_start, vr_end, vr_number, vr_size, vr_contains >>
    /\ UNCHANGED << opeVars, rhVars, hgVars, suVars >>

\* ValueRange::size on the range built.
VrSize ==
    /\ vr_pc = "built"
    /\ vr_pc' = "sized"
    /\ vr_size' = SizeOf(vr_range)
    /\ UNCHANGED << vr_start, vr_end, vr_number, vr_range, vr_contains >>
    /\ UNCHANGED << opeVars, rhVars, hgVars, suVars >>

\* ValueRange::contains on the range built.
VrContains ==
    /\ vr_pc = "sized"
    /\ vr_pc' = "probed"
    /\ vr_contains' = ContainsNum(vr_range, vr_number)
    /\ UNCHANGED << vr_start, vr_end, vr_number, vr_range, vr_size >>
    /\ UNCHANGED << opeVars, rhVars, hgVars, suVars >>

VrNext == VrNew \/ VrSize \/ VrContains

\* ====================================================== specifications
\* Encryption calls on one OPE context.
Init == OpeInit /\ RhParked /\ HgParked /\ SuParked /\ VrParked

Next == OpeNext

Spec == Init /\ [][Next]_vars

\* One call of HGD::rhyper.
RhyperInit == RhInit /\ OpeInitWith(Range(0, 0), Range(0, 0)) /\ HgParked /\ SuParked
              /\ VrParked

RhyperNext == RhNext

RhyperSpec == RhyperInit /\ [][RhyperNext]_vars

\* One call of sample_hgd.
HgdInit == HgInit /\ OpeInitWith(Range(0, 0), Range(0, 0)) /\ RhParked /\ SuParked
           /\ VrParked

HgdNext == HgNext

HgdSpec == HgdInit /\ [][HgdNext]_vars

\* One call of sample_uniform.
UniformInit == SuInit /\ OpeInitWith(Range(0, 0), Range(0, 0)) /\ RhParked /\ HgParked
               /\ VrParked

UniformNext == SuNext

UniformSpec == UniformInit /\ [][UniformNext]_vars

\* One ValueRange: its construction, then size and contains.
RangeInit == VrInit /\ OpeInitWith(Range(0, 0), Range(0, 0)) /\ RhParked /\ HgParked
             /\ SuParked

RangeNext == VrNext

RangeSpec == RangeInit /\ [][RangeNext]_vars

\* ------------------------------------------------------- claims on encrypt
Finished == pc \in {"returned", "panicked"}

LastReturned == last # << >> /\ last[3].err = "none"

C3_Terminates == pc = "panicked" => result.err # "StackOverflow"

\* C4: at every recursive step the in_range handed to the next call of
\* encrypt_recursive is strictly smaller than the current one.
C4_InSizeDecreases ==
    [][(pc = "recursing" /\ pc' = "recursing") => Size(cur_in') < Size(cur_in)]_vars

\* C5: two encrypt calls on the same plaintext under one context pass the same
\* labels to tape_gen in the same order and end in the same outcome.
C5_Deterministic ==
    (Finished /\ last # << >> /\ last[1] = plaintext) =>
        (trace = last[2] /\ result = last[3])

C5_Witness ==
    /\ pc = "returned"
    /\ last # << >> /\ last[1] = plaintext
    /\ Len(trace) >= 2
    /\ trace = last[2] /\ result = last[3]

\* C10: a plaintext outside in_range makes encrypt fail with OutOfDomain before
\* any tape is generated or sampler called, and it never returns a ciphertext;
\* a plaintext of in_range is never refused by that check.
InDomain == in_range.start <= plaintext /\ plaintext <= in_range.end

C10_OutOfDomain ==
    pc # "idle" =>
        /\ ~InDomain =>
              (pc = "panicked" /\ result.err = "OutOfDomain" /\ trace = << >>)
        /\ InDomain => result.err # "OutOfDomain"

C10_Witness ==
    /\ pc = "panicked" /\ result.err = "OutOfDomain"
    /\ plaintext > in_range.end
    /\ tapes # << >>

\* C12: at an internal node with current ranges I = cur_in and O = cur_out, the
\* label of the tape is mid = (O.start - 1) + ceil(O.size() / 2), and the next
\* call receives I' = [I.start, x], O' = [O.start, mid] with p <= x, or
\* I' = [x + 1, I.end], O' = [mid + 1, O.end] with x < p, all taken from the
\* current I and O.
CurMid == (cur_out.start - 1) + ((Size(cur_out) + 1) \div 2)

C12_NodeStep ==
    /\ trace' = Append(trace, CurMid)
    /\ pc' = "recursing" =>
          \/ /\ cur_in'.start = cur_in.start
             /\ plaintext <= cur_in'.end
             /\ cur_out' = Range(cur_out.start, CurMid)
          \/ /\ cur_in'.end = cur_in.end
             /\ cur_in'.start - 1 < plaintext
             /\ cur_out' = Range(CurMid + 1, cur_out.end)

C12_FromCurrentRanges ==
    [][(pc = "recursing" /\ Size(cur_in) > 1 /\ trace' # trace) => C12_NodeStep]_vars

\* C14: on a plaintext of in_range, every call encrypt_recursive makes to
\* sample_hgd passes the checks sample_hgd makes on its arguments (both sizes at
\* least 1, the membership test on nsample = mid): encrypt never aborts there.
C14_HgdPreconditionsHold ==
    pc = "panicked" => result.err \notin {"HgdInSize", "HgdOutSize", "HgdNsample"}

\* C15: in every call of encrypt_recursive made for a plaintext of in_range, the
\* current ranges I = cur_in and O = cur_out satisfy: the plaintext is in I, I
\* lies within in_range, O lies within out_range, and I.size() <= O.size(); no
\* ValueRange::new of the recursion fails.
C15_RecursionInvariant ==
    /\ pc = "recursing" =>
          /\ cur_in.start <= plaintext /\ plaintext <= cur_in.end
          /\ in_range.start <= cur_in.start /\ cur_in.end <= in_range.end
          /\ out_range.start <= cur_out.start /\ cur_out.end <= out_range.end
          /\ Size(cur_in) <= Size(cur_out)
    /\ result.err # "InvalidRange"

\* ------------------------------------------------------ claims on samplers
\* C6: under the precondition good, bad >= 0 and 0 <= k <= good + bad, every
\* value rhyper returns lies in [max(0, k - bad), min(k, good)].
C6_RhyperInRange ==
    rh_pc = "done" =>
        /\ rh_ret.inf = 0
        /\ Max(0, rh_kk - rh_nn2) <= rh_ret.val
        /\ rh_ret.val <= Min(rh_kk, rh_nn1)

\* C7: every value sample_hgd returns is contained in in_range, on each of its
\* three return paths; a value outside in_range is never returned.
C7_HgdInRange ==
    (hg_pc = "done" /\ hg_ret.err = "none") =>
        (hg_in.start <= hg_ret.val /\ hg_ret.val <= hg_in.end)

\* C8: sample_uniform fails for want of coins only once the bisection has used
\* up the whole tape, so never on a range of at most 2^CoinsLen values.
C8_ExhaustedBeyondTape ==
    su_pc = "exhausted" =>
        (su_bit >= CoinsLen /\ Size(su_range) > Pow2(CoinsLen))

\* C13: in sample_uniform the current range is at every pass of the loop a
\* non-empty sub-interval of in_range that strictly shrinks: with m the floor of
\* (start + end) / 2, bit 0 keeps [start, m] and bit 1 keeps [m + 1, end], for
\* negative endpoints too, the bits being taken in order from bit 0; a value
\* returned is the single value left and lies in in_range.
HalfwayOf(r) ==
    CHOOSE m \in (r.start - 1)..r.end :
        2 * m <= r.start + r.end /\ r.start + r.end <= 2 * m + 1

C13_Pass ==
    /\ su_cur.start <= su_cur.end
    /\ su_range.start <= su_cur.start /\ su_cur.end <= su_range.end
    /\ su_pc' = "loop" =>
          /\ su_bit' = su_bit + 1
          /\ su_coins[su_bit'] = 0 =>
                su_cur' = Range(su_cur.start, HalfwayOf(su_cur))
          /\ su_coins[su_bit'] = 1 =>
                su_cur' = Range(HalfwayOf(su_cur) + 1, su_cur.end)
          /\ su_cur'.start <= su_cur'.end
          /\ su_cur.start <= su_cur'.start /\ su_cur'.end <= su_cur.end
          /\ Size(su_cur') < Size(su_cur)
    /\ su_pc' = "done" =>
          /\ su_cur' = su_cur /\ su_cur.start = su_cur.end
          /\ su_range.start <= su_cur.start /\ su_cur.start <= su_range.end

C13_Bisection == [][su_pc = "loop" => C13_Pass]_vars

C13_Witness ==
    /\ su_pc = "done"
    /\ su_bit >= 2
    /\ su_range.end < 0
    /\ su_range.start < su_cur.start /\ su_cur.start < su_range.end

\* C9 as stated: the rejection loop fails only after HruaCap iterations have all
\* rejected.
C9_TenIterations ==
    rh_pc = "diverged" => rh_evals = HruaCap

\* C9 as amended: the rejection loop runs at most HruaCap - 1 iterations; an
\* accepting iteration returns its corrected sample, and the call fails only
\* after HruaCap - 1 iterations have all rejected, on entering the next one.
C9_NineIterations ==
    /\ rh_evals <= HruaCap - 1
    /\ rh_count <= HruaCap
    /\ rh_pc = "diverged" => (rh_evals = HruaCap - 1 /\ rh_h = Reject)
    /\ (rh_pc = "done" /\ UsesHrua(rh_kk)) =>
          /\ rh_h # Reject
          /\ rh_evals >= 1
          /\ rh_ret = Fin(HruaCorrect(rh_h, rh_nn1, rh_nn2, rh_kk))

C9_Witness ==
    /\ rh_pc = "diverged"
    /\ UsesHrua(rh_kk)
    /\ rh_evals = HruaCap - 1
    /\ rh_count = HruaCap

\* ---------------------------------------------------- claims on ValueRange
\* The integers of the closed interval from vr_start / Den to vr_end / Den.
IsInteger(n) == n % Den = 0

IntegersWithin == {k \in Nums : IsInteger(k) /\ vr_start <= k /\ k <= vr_end}

\* C11: ValueRange::new fails exactly when start > end or an endpoint is not an
\* integer; a range it returns has start <= end, its size() is end - start + 1,
\* the number of integers it holds, at least 1, and contains(n) is true exactly
\* when start <= n <= end.
C11_ValueRange ==
    /\ vr_pc # "new" =>
          (vr_pc = "invalid" <=>
              (vr_start > vr_end \/ ~IsInteger(vr_start) \/ ~IsInteger(vr_end)))
    /\ vr_pc \in {"built", "sized", "probed"} =>
          /\ vr_range = Range(vr_start, vr_end)
          /\ vr_start <= vr_end
    /\ vr_pc \in {"sized", "probed"} =>
          /\ vr_size = Den * Cardinality(IntegersWithin)
          /\ vr_size >= Den
    /\ vr_pc = "probed" =>
          (vr_contains <=> (vr_start <= vr_number /\ vr_number <= vr_end))

C11_Witness ==
    /\ vr_pc = "probed"
    /\ vr_start < 0
    /\ vr_size >= 2 * Den
    /\ vr_contains /\ ~IsInteger(vr_number)

\* ------------------------------------------------------- claims on the PRNG
\* C16: PRNG::draw reads the first seed word of the tape and never advances, so
\* every iteration of the HRUA loop draws the same x = y and computes the same
\* outcome: a HRUA call accepts on its first iteration or rejects on all of them
\* and ends in SamplerDiverged; it never accepts on a later iteration, and a
\* tape whose seed word is all 0 always diverges.
FirstWord == numerify_coins(rh_coins)

C16_FirstOrNever ==
    /\ rh_evals >= 1 => (rh_x = FirstWord /\ rh_y = FirstWord)
    /\ (rh_pc = "done" /\ UsesHrua(rh_kk)) => rh_evals = 1
    /\ (rh_pc = "hrua" /\ rh_evals >= 1) => rh_h = Reject
    /\ rh_pc = "diverged" => (rh_h = Reject /\ Cardinality(DOMAIN rh_iters) = 1)
    /\ (UsesHrua(rh_kk) /\ FirstWord = 0 /\ rh_pc \in {"done", "diverged"}) =>
          rh_pc = "diverged"

C16_Witness ==
    /\ rh_pc = "diverged"
    /\ FirstWord # 0
    /\ rh_x = rh_y
    /\ rh_drawn = 2 * (HruaCap - 1)

====
